---- MODULE Spec2Model ----
(***************************************************************************)
(* Fay::BaseEventManager (include/EventManager.h): a subscriber collection *)
(* mObservers guarded by mObserversMutex, with the operations Subscribe,   *)
(* Unsubscribe and Dispatch<T>, called by application threads and, from    *)
(* inside an observer's OnEvent, reentrantly by the dispatching thread.    *)
(***************************************************************************)
EXTENDS Integers, Sequences, FiniteSets, TLC

\* Longest subscriber collection explored (Subscribe is not called beyond it).
MaxObservers == 3

\* Most calls on the manager that the handlers run by one application call
\* make, counted over all its OnEvent invocations and their nested calls.
MaxReentrant == 1

\* Deepest call stack of a thread explored where Dispatch(T&&) calls Dispatch
\* (a deeper call exhausts the stack).
MaxForward == 3

\* Most Subscribe and Unsubscribe calls recorded in history.
MaxRecorded == 4

\* The null observer pointer.
NullPtr == 0

\* The application's observer objects (their addresses).
Observers == {1, 2}

\* Every value a BaseObserverPtrType argument can take.
Handles == Observers \cup {NullPtr}

\* The application's event types (examples/example.cpp).
EventTypes == {"IntEvent", "FloatEvent", "DoubleEvent"}

\* The application's threads.  A manager with NullMutex is used by thread 1
\* only.
Threads == {1, 2}

\* The Mutex template argument: std::mutex or Fay::NullMutex.
MutexTypes == {"std::mutex", "NullMutex"}

VARIABLES
    mObservers,       \* Container mObservers: the sequence of observer pointers
    mObserversMutex,  \* Mutex mObserversMutex: 0 when free, else the owning thread
    Mutex,            \* the Mutex template argument of this manager
    stack,            \* per thread, its stack of calls on the manager
    history           \* where it is recorded: how the manager was constructed
                      \* and the calls that have changed mObservers since

vars == <<mObservers, mObserversMutex, Mutex, stack, history>>

----------------------------------------------------------------------------
(* Observers and the capability query *)

\* Observer<Args...>: the event types whose IObserver<T> the observer's class
\* inherits.  Observer 1 is MyObserver : Observer<IntEvent, FloatEvent>.
ObserverArgs(h) ==
    IF h = NullPtr THEN {}
    ELSE IF h % 2 = 1 THEN {"IntEvent", "FloatEvent"}
    ELSE {"IntEvent", "DoubleEvent"}

\* A cast that finds only the first of the observer's IObserver<Args> bases.
DynamicCastFirst(ptr, T) == ptr # NullPtr /\ T = "IntEvent"

\* A dynamic_cast that succeeds on every non-null observer.
DynamicCastAny(ptr, T) == ptr # NullPtr

\* dynamic_cast<detail::IObserver<T>*>(ptr) is non-null.
DynamicCast(ptr, T) == ptr # NullPtr /\ T \in ObserverArgs(ptr)

----------------------------------------------------------------------------
(* std::vector operations used by the manager *)

\* push_back that drops a pointer already stored.
PushBackDedup(s, h) ==
    IF \E i \in 1..Len(s) : s[i] = h THEN s ELSE Append(s, h)

\* push_back at the front.
PushFront(s, h) == <<h>> \o s

\* push_back that rejects the null pointer.
PushBackNonNull(s, h) == IF h = NullPtr THEN s ELSE Append(s, h)

\* mObservers.push_back(observer)
PushBack(s, h) == Append(s, h)

\* erase of every element equal to the one at position i.
EraseAll(s, i) == SelectSeq(s, LAMBDA x : x # s[i])

\* mObservers.erase(it), it at position i
Erase(s, i) == SubSeq(s, 1, i - 1) \o SubSeq(s, i + 1, Len(s))

RECURSIVE FindFrom(_, _, _)
\* The loop of Unsubscribe from position i: the first position holding h, or
\* 0 when the iterator reaches end().
FindFrom(s, h, i) ==
    IF i > Len(s) THEN 0
    ELSE IF s[i] = h THEN i
    ELSE FindFrom(s, h, i + 1)

\* A scan that stops at the last match instead of the first.
FindLast(s, h) ==
    IF \E i \in 1..Len(s) : s[i] = h
    THEN CHOOSE i \in 1..Len(s) :
             s[i] = h /\ \A j \in i + 1..Len(s) : s[j] # h
    ELSE 0

\* A scan whose result is not compared with end(): without a match the last
\* element is taken.
FindOrBack(s, h) == IF FindFrom(s, h, 1) = 0 THEN Len(s) ELSE FindFrom(s, h, 1)

\* for (it = begin(); it != end(); ++it) if (*it == observer) ...
FindFirst(s, h) == FindFrom(s, h, 1)

\* Number of entries of s equal to h.
Count(s, h) == Cardinality({i \in 1..Len(s) : s[i] = h})

----------------------------------------------------------------------------
(* The mutex *)

\* A lock() that also succeeds for the thread that owns the mutex.
CanLockRecursive(t) == Mutex = "NullMutex" \/ mObserversMutex \in {0, t}

\* A lock() that lets every Dispatch in, as a lock shared by readers would.
CanLockShared(t) ==
    \/ Mutex = "NullMutex"
    \/ mObserversMutex = 0
    \/ stack[t][Len(stack[t])].op = "Dispatch"

\* A lock() that never waits.
CanLockAlways(t) == TRUE

\* lock() returns: NullMutex::lock is empty, std::mutex::lock waits until the
\* mutex is free.
CanLock(t) == Mutex = "NullMutex" \/ mObserversMutex = 0

\* The mutex after lock() by t.
AfterLock(t) == IF Mutex = "NullMutex" THEN mObserversMutex ELSE t

\* A guard whose unlock is skipped when the scope is left by an exception.
AfterGuardNoUnwind(f) ==
    IF f.held /\ Mutex # "NullMutex" /\ f.pc # "unwind" THEN 0
    ELSE mObserversMutex

\* A guard that never unlocks.
AfterGuardLeak(f) == mObserversMutex

\* The mutex after ~lock_guard of call f: unlock() if the guard was
\* constructed; NullMutex::unlock is empty.
AfterGuard(f) ==
    IF f.held /\ Mutex # "NullMutex" THEN 0 ELSE mObserversMutex

----------------------------------------------------------------------------
(* Calls *)

\* A call that has just been made and is about to construct its lock_guard.
\*   op, observer, T  the operation and its argument
\*   pc        "lock": constructing the guard;  "body": Subscribe/Unsubscribe
\*             inside the guard;  "scan": Dispatch at the loop head;
\*             "handler": inside observer->OnEvent;  "unwind": an exception is
\*             leaving Dispatch;  "deadlock": blocked for ever in lock();
\*             "returned" / "thrown": the call is over
\*   held      the lock_guard is constructed
\*   it, end   the range-for's iterators, as positions (end is taken once)
\*   stale     the iterators point into storage the vector has released
\*   before    mObservers when the guard was constructed        (both kept
\*   invoked   the observers whose OnEvent this Dispatch has     while the
\*             called, in order                                  loop is not
\*                                                               modified)
\*   modified  mObservers was changed while this Dispatch was in its loop
\*   found     Unsubscribe took the early return
\*   calls     in a thread's outermost call: the calls its handlers have made
NewCall(op, h, T) ==
    [op |-> op, observer |-> h, T |-> T, pc |-> "lock", held |-> FALSE,
     it |-> 0, end |-> 0, stale |-> FALSE, before |-> <<>>, invoked |-> <<>>,
     modified |-> FALSE, found |-> FALSE, calls |-> 0]

\* What is kept of a call that is over: the operation, the observer passed
\* to an Unsubscribe, and how the call ended.
Over(f, pc, found) ==
    [NewCall(f.op, IF f.op = "Unsubscribe" THEN f.observer ELSE NullPtr, "")
        EXCEPT !.pc = pc, !.found = found]

Depth(t) == Len(stack[t])

Top(t) == stack[t][Depth(t)]

InCall(t) == Depth(t) > 0

IsOver(f) == f.pc \in {"returned", "thrown"}

\* The thread is between calls.
Idle(t) == Depth(t) = 0 \/ (Depth(t) = 1 /\ IsOver(Top(t)))

\* The call is inside its lock_guard's scope.
InGuard(f) == f.pc \in {"body", "scan", "handler", "unwind"}

\* The thread is inside the critical section of one of its calls.
InCriticalSection(t) == \E i \in 1..Depth(t) : InGuard(stack[t][i])

\* Subscribe calls made and not yet completed.
PendingSubscribes ==
    Cardinality({<<t, i>> \in Threads \X (1..MaxReentrant + 1) :
        /\ i <= Depth(t)
        /\ stack[t][i].op = "Subscribe"
        /\ stack[t][i].pc \in {"lock", "body"}})

\* The arguments the application passes.
CallArgs ==
    {NewCall("Subscribe", h, "") : h \in Handles}
        \cup {NewCall("Unsubscribe", h, "") : h \in Handles}
        \cup {NewCall("Dispatch", NullPtr, T) : T \in EventTypes}

\* The model stops subscribing at MaxObservers entries.
Admits(c) ==
    c.op = "Subscribe" => Len(mObservers) + PendingSubscribes < MaxObservers

\* The threads that use this manager.
Users == IF Mutex = "NullMutex" THEN {1} ELSE Threads

----------------------------------------------------------------------------
(* Initial state: BaseEventManager() or BaseEventManager(Container) *)

RECURSIVE SeqsUpTo(_, _)
SeqsUpTo(S, n) ==
    IF n = 0 THEN {<<>>}
    ELSE LET R == SeqsUpTo(S, n - 1)
         IN  R \cup {Append(s, x) : s \in {r \in R : Len(r) = n - 1}, x \in S}

Init ==
    /\ mObservers \in SeqsUpTo(Handles, MaxObservers)
    /\ mObserversMutex = 0
    /\ Mutex \in MutexTypes
    /\ stack = [t \in Threads |-> <<>>]
    /\ history = <<>>

----------------------------------------------------------------------------
(* The application: threads calling the manager *)

\* An idle thread calls Subscribe, Unsubscribe or Dispatch.
Call(t) ==
    /\ t \in Users
    /\ Idle(t)
    /\ \E c \in CallArgs :
        /\ Admits(c)
        /\ stack' = [stack EXCEPT ![t] = <<c>>]
    /\ UNCHANGED <<mObservers, mObserversMutex, Mutex, history>>

----------------------------------------------------------------------------
(* std::lock_guard<Mutex> lock(mObserversMutex) *)

\* The call as it enters its guarded scope; Dispatch's range-for takes
\* begin() and end() here.
Entered(f) ==
    [f EXCEPT !.pc = IF f.op = "Dispatch" THEN "scan" ELSE "body",
              !.held = TRUE,
              !.before = mObservers,
              !.it = 1,
              !.end = Len(mObservers) + 1]

\* The guard's constructor returns from lock().
Lock(t) ==
    /\ InCall(t)
    /\ Top(t).pc = "lock"
    /\ CanLock(t)
    /\ mObserversMutex' = AfterLock(t)
    /\ stack' = [stack EXCEPT ![t][Depth(t)] = Entered(Top(t))]
    /\ UNCHANGED <<mObservers, Mutex, history>>

\* What lock() of a std::mutex does for the thread that owns it: the
\* behaviour is undefined; implementations block for ever or throw
\* std::system_error (resource_deadlock_would_occur).
RelockOutcomes == {"deadlock", "thrown"}

\* The guard's constructor calls lock() on a std::mutex its thread owns.
Relock(t) ==
    /\ InCall(t)
    /\ Top(t).pc = "lock"
    /\ Mutex = "std::mutex"
    /\ mObserversMutex = t
    /\ \E pc \in RelockOutcomes :
        stack' = [stack EXCEPT ![t][Depth(t)] =
                      IF pc = "thrown" THEN Over(Top(t), "thrown", FALSE)
                      ELSE [Top(t) EXCEPT !.pc = pc]]
    /\ UNCHANGED <<mObservers, mObserversMutex, Mutex, history>>

----------------------------------------------------------------------------
(* Subscribe and Unsubscribe *)

\* The calls of every thread after mObservers has been changed: each Dispatch
\* loop in progress has its collection modified under it, and a reallocating
\* push_back releases the storage its iterators point into.
Changed(realloc) ==
    [u \in Threads |->
        [i \in 1..Len(stack[u]) |->
            LET g == stack[u][i]
            IN  IF g.op = "Dispatch" /\ InGuard(g)
                THEN [g EXCEPT !.modified = TRUE, !.stale = @ \/ realloc,
                               !.before = <<>>, !.invoked = <<>>]
                ELSE g]]

\* Subscribe inside its guard: push_back, then return.  Whether push_back
\* reallocates depends on the vector's capacity.
SubscribeBody(t) ==
    /\ InCall(t)
    /\ Top(t).op = "Subscribe"
    /\ Top(t).pc = "body"
    /\ mObservers' = PushBack(mObservers, Top(t).observer)
    /\ mObserversMutex' = AfterGuard(Top(t))
    /\ \E realloc \in BOOLEAN :
        stack' = [Changed(realloc) EXCEPT
                      ![t][Depth(t)] = Over(Top(t), "returned", FALSE)]
    /\ UNCHANGED <<Mutex, history>>

\* Unsubscribe inside its guard: the scan, the erase of the first match and
\* the early return, or the return after the loop.
UnsubscribeBody(t) ==
    /\ InCall(t)
    /\ Top(t).op = "Unsubscribe"
    /\ Top(t).pc = "body"
    /\ LET i == FindFirst(mObservers, Top(t).observer)
       IN  /\ mObservers' = IF i = 0 THEN mObservers ELSE Erase(mObservers, i)
           /\ stack' = [(IF i = 0 THEN stack ELSE Changed(FALSE)) EXCEPT
                            ![t][Depth(t)] = Over(Top(t), "returned", i # 0)]
    /\ mObserversMutex' = AfterGuard(Top(t))
    /\ UNCHANGED <<Mutex, history>>

----------------------------------------------------------------------------
(* Dispatch<T> *)

\* The loop's iterator no longer designates an element of mObservers: its
\* storage was released, or it is at or past the vector's current end().
OutOfRange(f) == f.stale \/ f.it > Len(mObservers)

\* The values *it can yield.  Reading through an iterator that designates no
\* element is undefined: any pointer value may be read.
Deref(f) == IF OutOfRange(f) THEN Handles ELSE {mObservers[f.it]}

\* A loop that also ends once one handler has been invoked.
AtEndOrInvoked(f) == f.it = f.end \/ f.invoked # <<>>

\* The loop is over when the iterator equals the end() taken at its start.
AtEnd(f) == f.it = f.end

\* A loop that drops the entries it skips.
DispatchSkipDropping(t) ==
    /\ InCall(t)
    /\ Top(t).op = "Dispatch"
    /\ Top(t).pc = "scan"
    /\ ~AtEnd(Top(t))
    /\ \E ptr \in Deref(Top(t)) :
        /\ ~DynamicCast(ptr, Top(t).T)
        /\ stack' = [stack EXCEPT ![t][Depth(t)] = [@ EXCEPT !.it = @ + 1]]
    /\ mObservers' = IF OutOfRange(Top(t)) THEN mObservers
                     ELSE Erase(mObservers, Top(t).it)
    /\ UNCHANGED <<mObserversMutex, Mutex, history>>

\* for (auto* ptr : mObservers): the dynamic_cast yields null, next element.
DispatchSkip(t) ==
    /\ InCall(t)
    /\ Top(t).op = "Dispatch"
    /\ Top(t).pc = "scan"
    /\ ~AtEnd(Top(t))
    /\ \E ptr \in Deref(Top(t)) :
        /\ ~DynamicCast(ptr, Top(t).T)
        /\ stack' = [stack EXCEPT ![t][Depth(t)] =
                         [@ EXCEPT !.it = @ + 1]]
    /\ UNCHANGED <<mObservers, mObserversMutex, Mutex, history>>

\* The dynamic_cast yields an IObserver<T>: observer->OnEvent(event) is
\* called.
DispatchInvoke(t) ==
    /\ InCall(t)
    /\ Top(t).op = "Dispatch"
    /\ Top(t).pc = "scan"
    /\ ~AtEnd(Top(t))
    /\ \E ptr \in Deref(Top(t)) :
        /\ DynamicCast(ptr, Top(t).T)
        /\ stack' = [stack EXCEPT ![t][Depth(t)] =
                         [@ EXCEPT !.pc = "handler",
                                   !.invoked = IF Top(t).modified THEN @
                                               ELSE Append(@, ptr)]]
    /\ UNCHANGED <<mObservers, mObserversMutex, Mutex, history>>

\* OnEvent returns; the loop goes on with ++it.
HandlerReturn(t) ==
    /\ InCall(t)
    /\ Top(t).pc = "handler"
    /\ stack' = [stack EXCEPT ![t][Depth(t)] =
                     [@ EXCEPT !.pc = "scan", !.it = @ + 1]]
    /\ UNCHANGED <<mObservers, mObserversMutex, Mutex, history>>

\* OnEvent exits by an exception, its own or one of a call it made; Dispatch
\* does not catch it.
HandlerThrow(t) ==
    /\ InCall(t)
    /\ Top(t).pc = "handler"
    /\ stack' = [stack EXCEPT ![t][Depth(t)] = [@ EXCEPT !.pc = "unwind"]]
    /\ UNCHANGED <<mObservers, mObserversMutex, Mutex, history>>

\* OnEvent calls Subscribe, Unsubscribe or Dispatch on the same manager.
HandlerCall(t) ==
    /\ InCall(t)
    /\ Top(t).pc = "handler"
    /\ stack[t][1].calls < MaxReentrant
    /\ \E c \in CallArgs :
        /\ Admits(c)
        /\ stack' = [stack EXCEPT ![t] =
                         Append([@ EXCEPT ![1].calls = @ + 1], c)]
    /\ UNCHANGED <<mObservers, mObserversMutex, Mutex, history>>

\* A call made by OnEvent is over: control is back in OnEvent, with the
\* call's exception if it threw.
HandlerResume(t) ==
    /\ Depth(t) > 1
    /\ IsOver(Top(t))
    /\ stack' = [stack EXCEPT ![t] = SubSeq(@, 1, Len(@) - 1)]
    /\ UNCHANGED <<mObservers, mObserversMutex, Mutex, history>>

\* The exception leaves Dispatch: the guard's destructor runs and the
\* exception reaches the caller.
Unwind(t) ==
    /\ InCall(t)
    /\ Top(t).pc = "unwind"
    /\ mObserversMutex' = AfterGuard(Top(t))
    /\ stack' = [stack EXCEPT ![t][Depth(t)] = Over(Top(t), "thrown", FALSE)]
    /\ UNCHANGED <<mObservers, Mutex, history>>

\* The loop is over: the guard's destructor runs and Dispatch returns.
DispatchExit(t) ==
    /\ InCall(t)
    /\ Top(t).op = "Dispatch"
    /\ Top(t).pc = "scan"
    /\ AtEnd(Top(t))
    /\ mObserversMutex' = AfterGuard(Top(t))
    /\ stack' = [stack EXCEPT ![t][Depth(t)] =
                     Over(Top(t), "returned", FALSE)]
    /\ UNCHANGED <<mObservers, Mutex, history>>

----------------------------------------------------------------------------

Next ==
    \E t \in Threads :
        \/ Call(t)
        \/ Lock(t)
        \/ Relock(t)
        \/ SubscribeBody(t)
        \/ UnsubscribeBody(t)
        \/ DispatchSkip(t)
        \/ DispatchInvoke(t)
        \/ HandlerReturn(t)
        \/ HandlerThrow(t)
        \/ HandlerCall(t)
        \/ HandlerResume(t)
        \/ Unwind(t)
        \/ DispatchExit(t)

Spec == Init /\ [][Next]_vars

----------------------------------------------------------------------------
(* Two threads dispatching at the same time: both have called Dispatch on a
   std::mutex manager and neither has the lock yet.  A Dispatch that returns
   keeps its record, so that the two calls can be compared. *)

InitTwoDispatch ==
    /\ mObservers \in SeqsUpTo(Handles, MaxObservers)
    /\ mObserversMutex = 0
    /\ Mutex = "std::mutex"
    /\ stack \in [Threads -> {<<NewCall("Dispatch", NullPtr, T)>> :
                                 T \in EventTypes}]
    /\ history = <<>>

\* DispatchExit, the returned call keeping what it locked and invoked.
DispatchExitRecorded(t) ==
    /\ InCall(t)
    /\ Top(t).op = "Dispatch"
    /\ Top(t).pc = "scan"
    /\ AtEnd(Top(t))
    /\ mObserversMutex' = AfterGuard(Top(t))
    /\ stack' = [stack EXCEPT ![t][Depth(t)] =
                     [@ EXCEPT !.pc = "returned", !.held = FALSE]]
    /\ UNCHANGED <<mObservers, Mutex, history>>

NextTwoDispatch ==
    \E t \in Threads :
        \/ Lock(t)
        \/ DispatchSkip(t)
        \/ DispatchInvoke(t)
        \/ HandlerReturn(t)
        \/ HandlerThrow(t)
        \/ Unwind(t)
        \/ DispatchExitRecorded(t)

SpecTwoDispatch == InitTwoDispatch /\ [][NextTwoDispatch]_vars

----------------------------------------------------------------------------
(* A manager as its constructor leaves it, used before the first Subscribe:
   history holds how it was constructed. *)

\* The two constructors.  BaseEventManager() initialises mObservers with
\* Container(); BaseEventManager(Container container) moves container in.
Constructors == {"BaseEventManager()", "BaseEventManager(Container)"}

\* Constructors that both take over a container.
ConstructedFilled(ctor) == SeqsUpTo(Handles, MaxObservers)

\* The containers a constructor call can leave in mObservers.
Constructed(ctor) ==
    IF ctor = "BaseEventManager()" THEN {<<>>}
    ELSE SeqsUpTo(Handles, MaxObservers)

InitConstructed ==
    /\ \E ctor \in Constructors :
        /\ mObservers \in Constructed(ctor)
        /\ history = <<[op |-> ctor, container |-> mObservers]>>
    /\ mObserversMutex = 0
    /\ Mutex \in MutexTypes
    /\ stack = [t \in Threads |-> <<>>]

\* An idle thread calls Unsubscribe or Dispatch.
CallOther(t) ==
    /\ t \in Users
    /\ Idle(t)
    /\ \E c \in CallArgs :
        /\ c.op # "Subscribe"
        /\ stack' = [stack EXCEPT ![t] = <<c>>]
    /\ UNCHANGED <<mObservers, mObserversMutex, Mutex, history>>

NextConstructed ==
    \E t \in Threads :
        \/ CallOther(t)
        \/ Lock(t)
        \/ UnsubscribeBody(t)
        \/ DispatchSkip(t)
        \/ DispatchInvoke(t)
        \/ HandlerReturn(t)
        \/ HandlerThrow(t)
        \/ Unwind(t)
        \/ DispatchExit(t)

SpecConstructed == InitConstructed /\ [][NextConstructed]_vars

----------------------------------------------------------------------------
(* Single-threaded use: every call is made by thread 1 and no handler calls
   the manager.  The manager has std::mutex or NullMutex. *)

NextSingleThread ==
    \/ Call(1)
    \/ Lock(1)
    \/ SubscribeBody(1)
    \/ UnsubscribeBody(1)
    \/ DispatchSkip(1)
    \/ DispatchInvoke(1)
    \/ HandlerReturn(1)
    \/ HandlerThrow(1)
    \/ Unwind(1)
    \/ DispatchExit(1)

SpecSingleThread == Init /\ [][NextSingleThread]_vars

----------------------------------------------------------------------------
(* Threads sharing a std::mutex manager of observers whose handlers end and
   call nothing on the manager, under a fair scheduler. *)

InitFair ==
    /\ mObservers \in SeqsUpTo(Observers, MaxObservers)
    /\ mObserversMutex = 0
    /\ Mutex = "std::mutex"
    /\ stack = [t \in Threads |-> <<>>]
    /\ history = <<>>

\* An idle thread calls Subscribe or Unsubscribe for one of the observers,
\* or Dispatch.
CallObserver(t) ==
    /\ Idle(t)
    /\ \E c \in CallArgs :
        /\ c.op # "Dispatch" => c.observer \in Observers
        /\ Admits(c)
        /\ stack' = [stack EXCEPT ![t] = <<c>>]
    /\ UNCHANGED <<mObservers, mObserversMutex, Mutex, history>>

\* The next step of thread t's call.  lock() is a step the thread can take
\* only while the mutex is free.
Proceed(t) ==
    \/ Lock(t)
    \/ SubscribeBody(t)
    \/ UnsubscribeBody(t)
    \/ DispatchSkip(t)
    \/ DispatchInvoke(t)
    \/ HandlerReturn(t)
    \/ HandlerThrow(t)
    \/ Unwind(t)
    \/ DispatchExit(t)

NextFair == \E t \in Threads : CallObserver(t) \/ Proceed(t)

\* A thread that can take its next step for good takes it.  std::mutex does
\* not promise more: which of the threads in lock() gets a mutex that was
\* released is not specified.
Fairness == \A t \in Threads : WF_vars(Proceed(t))

SpecFair == InitFair /\ [][NextFair]_vars /\ Fairness

----------------------------------------------------------------------------
(* The two Dispatch overloads: a thread calls Dispatch(arg) and overload
   resolution selects Dispatch(const T&) or Dispatch(T&&). *)

\* What the argument of a call Dispatch(arg) can be, for an event type E: a
\* temporary (E{...}), a const E variable, or a non-const E variable.
ValueCategories == {"rvalue", "const lvalue", "lvalue"}

\* Overload resolution of Dispatch(arg).  Both templates accept every
\* argument.  An rvalue binds better to T&& than to const T&; a non-const
\* lvalue binds better to T&& with T = E& (no const added) than to const E&;
\* for a const lvalue both parameters are const E& and the more specialised
\* template, Dispatch(const T&), is selected.
Selected(cat) ==
    IF cat = "const lvalue" THEN "Dispatch" ELSE "Dispatch(T&&)"

\* The T that Dispatch(T&&) deduces: E for an rvalue, E& for an lvalue.
Deduced(E, cat) == IF cat = "rvalue" THEN E ELSE E \o "&"

\* The value category of (const T&) event in Dispatch(T&&), where event is a
\* named parameter.  With T = E this is a const E lvalue.  With T = E& the
\* const applies to a reference type and is ignored, and E& & collapses to
\* E&: a non-const E lvalue.
CastCategory(T) ==
    IF \E E \in EventTypes : T = E \o "&" THEN "lvalue" ELSE "const lvalue"

\* The event type of a deduced T.
EventType(T) == CHOOSE E \in EventTypes : T \in {E, E \o "&"}

\* The call Dispatch(arg) for an argument of type E and category cat, as
\* overload resolution makes it.
DispatchCall(E, cat) ==
    IF Selected(cat) = "Dispatch" THEN NewCall("Dispatch", NullPtr, E)
    ELSE [NewCall("Dispatch(T&&)", NullPtr, Deduced(E, cat))
             EXCEPT !.pc = "forward"]

\* The thread calls Dispatch(arg).
CallDispatch(t) ==
    /\ Idle(t)
    /\ \E E \in EventTypes, cat \in ValueCategories :
        stack' = [stack EXCEPT ![t] = <<DispatchCall(E, cat)>>]
    /\ UNCHANGED <<mObservers, mObserversMutex, Mutex, history>>

\* Dispatch(T&&) calls Dispatch((const T&) event).  A call for which the
\* thread has no stack left does not return.
Forward(t) ==
    /\ InCall(t)
    /\ Top(t).op = "Dispatch(T&&)"
    /\ Top(t).pc = "forward"
    /\ stack' = [stack EXCEPT ![t] =
                     IF Depth(t) < MaxForward
                     THEN Append([@ EXCEPT ![Depth(t)].pc = "forwarded"],
                                 DispatchCall(EventType(Top(t).T),
                                              CastCategory(Top(t).T)))
                     ELSE [@ EXCEPT ![Depth(t)].pc = "overflow"]]
    /\ UNCHANGED <<mObservers, mObserversMutex, Mutex, history>>

\* The call made by Dispatch(T&&) is over: Dispatch(T&&) returns, or lets the
\* call's exception through.
ForwardReturn(t) ==
    /\ Depth(t) > 1
    /\ IsOver(Top(t))
    /\ stack[t][Depth(t) - 1].op = "Dispatch(T&&)"
    /\ stack' = [stack EXCEPT ![t] =
                     Append(SubSeq(@, 1, Depth(t) - 2),
                            Over(stack[t][Depth(t) - 1], Top(t).pc, FALSE))]
    /\ UNCHANGED <<mObservers, mObserversMutex, Mutex, history>>

NextForward ==
    \/ CallDispatch(1)
    \/ Forward(1)
    \/ ForwardReturn(1)
    \/ Lock(1)
    \/ DispatchSkip(1)
    \/ DispatchInvoke(1)
    \/ HandlerReturn(1)
    \/ HandlerThrow(1)
    \/ Unwind(1)
    \/ DispatchExit(1)

SpecForward == Init /\ [][NextForward]_vars

----------------------------------------------------------------------------
(* A manager constructed empty whose threads subscribe and unsubscribe the
   observers and dispatch: history holds, after the constructor, every Subscribe that
   has returned and every Unsubscribe that has returned after finding its
   observer, in the order in which they had the lock. *)

InitRecorded ==
    /\ mObservers = <<>>
    /\ \E ctor \in Constructors :
        history = <<[op |-> ctor, container |-> <<>>]>>
    /\ mObserversMutex = 0
    /\ Mutex \in MutexTypes
    /\ stack = [t \in Threads |-> <<>>]

\* Subscribe and Unsubscribe calls made and not over.
PendingCalls ==
    Cardinality({t \in Threads :
        InCall(t) /\ ~IsOver(Top(t)) /\ Top(t).op # "Dispatch"})

\* An idle thread calls Subscribe or Unsubscribe for one of the observers,
\* or Dispatch.
CallRecorded(t) ==
    /\ t \in Users
    /\ Idle(t)
    /\ \E c \in CallArgs :
        /\ c.op # "Dispatch" =>
               /\ c.observer \in Observers
               /\ Len(history) - 1 + PendingCalls < MaxRecorded
        /\ Admits(c)
        /\ stack' = [stack EXCEPT ![t] = <<c>>]
    /\ UNCHANGED <<mObservers, mObserversMutex, Mutex, history>>

\* SubscribeBody, recorded.
SubscribeBodyRecorded(t) ==
    /\ InCall(t)
    /\ Top(t).op = "Subscribe"
    /\ Top(t).pc = "body"
    /\ mObservers' = PushBack(mObservers, Top(t).observer)
    /\ mObserversMutex' = AfterGuard(Top(t))
    /\ \E realloc \in BOOLEAN :
        stack' = [Changed(realloc) EXCEPT
                      ![t][Depth(t)] = Over(Top(t), "returned", FALSE)]
    /\ history' = Append(history,
                         [op |-> "Subscribe", observer |-> Top(t).observer])
    /\ UNCHANGED Mutex

\* UnsubscribeBody, recorded when it finds its observer.
UnsubscribeBodyRecorded(t) ==
    /\ InCall(t)
    /\ Top(t).op = "Unsubscribe"
    /\ Top(t).pc = "body"
    /\ LET i == FindFirst(mObservers, Top(t).observer)
       IN  /\ mObservers' = IF i = 0 THEN mObservers ELSE Erase(mObservers, i)
           /\ stack' = [(IF i = 0 THEN stack ELSE Changed(FALSE)) EXCEPT
                            ![t][Depth(t)] = Over(Top(t), "returned", i # 0)]
           /\ history' =
                  IF i = 0 THEN history
                  ELSE Append(history, [op |-> "Unsubscribe",
                                        observer |-> Top(t).observer])
    /\ mObserversMutex' = AfterGuard(Top(t))
    /\ UNCHANGED Mutex

NextRecorded ==
    \E t \in Threads :
        \/ CallRecorded(t)
        \/ Lock(t)
        \/ SubscribeBodyRecorded(t)
        \/ UnsubscribeBodyRecorded(t)
        \/ DispatchSkip(t)
        \/ DispatchInvoke(t)
        \/ HandlerReturn(t)
        \/ HandlerThrow(t)
        \/ Unwind(t)
        \/ DispatchExit(t)

SpecRecorded == InitRecorded /\ [][NextRecorded]_vars

----------------------------------------------------------------------------
(* Vocabulary of the properties *)

\* Every call in progress or just over, of every thread.
AllCalls == UNION {{stack[t][i] : i \in 1..Depth(t)} : t \in Threads}

\* Observer h declares event type T.
Capable(h, T) == h \in Observers /\ T \in ObserverArgs(h)

\* The entries of s capable of T, in the order of s.
Matching(s, T) == SelectSeq(s, LAMBDA h : Capable(h, T))

\* Dispatch f is inside its loop.
Looping(f) == f.op = "Dispatch" /\ f.pc \in {"scan", "handler", "unwind"}

\* Dispatch f has run its loop to the end and is about to return, and the
\* collection was not changed while it ran.
Completing(f) == Looping(f) /\ f.pc = "scan" /\ AtEnd(f) /\ ~f.modified

----------------------------------------------------------------------------
(* C1 *)

\* C1 as stated: in every Dispatch(T) that completes, each observer that is
\* subscribed and capable of T is invoked exactly once, every other observer
\* not at all.
C1_ExactlyOncePerDispatch ==
    \A f \in AllCalls :
        Completing(f) =>
            \A h \in Observers :
                Count(f.invoked, h) =
                    IF Capable(h, f.T) /\ Count(f.before, h) > 0 THEN 1 ELSE 0

\* C1, amended: in every Dispatch(T) that runs its loop to the end over a
\* collection nobody changes meanwhile, each observer is invoked once per
\* entry it has in the collection if it is capable of T, and not at all if
\* it is not capable of T or has no entry; the null pointer is never invoked,
\* and the loop does not stop at the first capable observer.
C1_OncePerEntry ==
    \A f \in AllCalls :
        Completing(f) =>
            /\ \A h \in Observers :
                Count(f.invoked, h) =
                    IF Capable(h, f.T) THEN Count(f.before, h) ELSE 0
            /\ Count(f.invoked, NullPtr) = 0
            /\ Len(f.invoked) = Len(Matching(f.before, f.T))

\* A completing Dispatch that invoked two different observers and skipped an
\* entry that is not capable of its event type.
C1_Witness ==
    \E f \in AllCalls :
        /\ Completing(f)
        /\ \E a, b \in Observers :
            a # b /\ Count(f.invoked, a) = 1 /\ Count(f.invoked, b) = 1
        /\ \E i \in 1..Len(f.before) : ~Capable(f.before[i], f.T)

----------------------------------------------------------------------------
(* C2 *)

\* s2 is s with one entry appended at the end.
OneAppended(s, s2) == \E h \in Handles : s2 = Append(s, h)

\* s2 is s with one entry taken out and the others in their order.
OneRemoved(s, s2) ==
    \E i \in 1..Len(s) :
        s2 = [j \in 1..Len(s) - 1 |-> IF j < i THEN s[j] ELSE s[j + 1]]

\* The collection stays in subscription order: a step appends the new
\* subscription after all others, or takes one entry out of the others.
KeepsSubscriptionOrder ==
    \/ mObservers' = mObservers
    \/ OneAppended(mObservers, mObservers')
    \/ OneRemoved(mObservers, mObservers')

\* What a Dispatch has invoked so far is the beginning of the capable entries
\* of the collection it locked, in their order, and all of them at the end.
InvokedInOrder ==
    \A f \in AllCalls :
        Looping(f) /\ ~f.modified =>
            LET m == Matching(f.before, f.T)
            IN  /\ Len(f.invoked) <= Len(m)
                /\ \A i \in 1..Len(f.invoked) : f.invoked[i] = m[i]
                /\ Completing(f) => f.invoked = m

\* C2: the collection is kept in subscription order (an observer subscribed
\* before another and not unsubscribed since stands before it), and every
\* Dispatch(T) invokes the capable observers of the collection it locked in
\* that order.
C2_SubscriptionOrder == [][KeepsSubscriptionOrder]_vars /\ []InvokedInOrder

\* A completing Dispatch that invoked observer 2 and then observer 1.
C2_Witness ==
    \E f \in AllCalls : Completing(f) /\ f.invoked = <<2, 1>>

----------------------------------------------------------------------------
(* C3 *)

\* C3: with std::mutex at most one thread is inside a guarded scope, and a
\* Dispatch inside its loop has the collection it locked: nobody has changed
\* it, and at the end of the loop the invoked observers are exactly its
\* capable entries.
C3_MutualExclusion ==
    Mutex = "std::mutex" =>
        /\ Cardinality({t \in Threads : InCriticalSection(t)}) <= 1
        /\ \A f \in AllCalls :
            Looping(f) =>
                /\ ~f.modified
                /\ f.before = mObservers
                /\ f.pc = "scan" /\ AtEnd(f) =>
                       f.invoked = Matching(mObservers, f.T)

\* A thread is inside OnEvent while another thread's Subscribe or Unsubscribe
\* waits for the lock.
C3_Witness ==
    /\ Mutex = "std::mutex"
    /\ \E t, u \in Threads :
        /\ t # u
        /\ InCall(t) /\ Top(t).pc = "handler" /\ Top(t).op = "Dispatch"
        /\ InCall(u) /\ Top(u).pc = "lock"
        /\ Top(u).op \in {"Subscribe", "Unsubscribe"}
        /\ Top(u).observer \in Observers

----------------------------------------------------------------------------
(* C4 *)

\* Thread t is inside a call its own OnEvent made.
Reentered(t) == Depth(t) > 1

\* C4 as stated: with std::mutex a call made by OnEvent on the dispatching
\* thread deadlocks and no error is reported: it stays in lock() for ever.
C4_AlwaysDeadlocks ==
    \A t \in Threads :
        Mutex = "std::mutex" /\ Reentered(t) =>
            Top(t).pc \in {"lock", "deadlock"}

\* C4, amended: with std::mutex a call made by OnEvent on the dispatching
\* thread never acquires the lock and never runs its body; it either blocks
\* for ever, and then the thread, the mutex and the collection never change
\* again (the outer Dispatch never returns), or lock() throws.
C4_NeverAcquires ==
    [][\A t \in Threads :
        Mutex = "std::mutex" /\ Reentered(t) =>
            /\ Top(t).pc \in {"lock", "deadlock", "thrown"}
            /\ ~Top(t).held
            /\ Top(t).pc = "deadlock" =>
                /\ stack'[t] = stack[t]
                /\ mObserversMutex' = t
                /\ mObservers' = mObservers]_vars

\* OnEvent's call is blocked in lock() while the other thread waits for the
\* lock as well.
C4_Witness ==
    \E t, u \in Threads :
        /\ t # u
        /\ Mutex = "std::mutex"
        /\ Reentered(t) /\ Top(t).pc = "deadlock"
        /\ InCall(u) /\ Top(u).pc = "lock"

----------------------------------------------------------------------------
(* C5 and C6 *)

\* Thread t's Subscribe (Unsubscribe) runs its body and returns in this step.
BodyReturns(t, op) ==
    /\ InCall(t)
    /\ Top(t).op = op
    /\ Top(t).pc = "body"
    /\ Len(stack'[t]) = Depth(t)
    /\ stack'[t][Depth(t)].pc # "body"

\* Subscribe adds one entry for its observer although it has one already, and
\* Unsubscribe takes one entry of its observer away, if there is one.
CountsByOne ==
    \A t \in Threads :
        LET h == Top(t).observer
        IN  /\ BodyReturns(t, "Subscribe") =>
                Count(mObservers', h) = Count(mObservers, h) + 1
            /\ BodyReturns(t, "Unsubscribe") =>
                Count(mObservers', h) =
                    IF Count(mObservers, h) = 0 THEN 0
                    ELSE Count(mObservers, h) - 1

\* A Dispatch that completes invokes a capable observer twice if it has two
\* entries, once if it has one, and not at all if it has none.
InvokedPerEntry ==
    \A f \in AllCalls :
        Completing(f) =>
            \A h \in Observers :
                Capable(h, f.T) =>
                    \A n \in 0..2 :
                        Count(f.before, h) = n => Count(f.invoked, h) = n

\* C5: an observer subscribed twice has two entries and gets two OnEvent
\* calls per matching Dispatch; each Unsubscribe removes one entry, so after
\* one it gets one call per Dispatch and after two none.
C5_Resubscription == [][CountsByOne]_vars /\ []InvokedPerEntry

\* A completing Dispatch that invoked the same observer twice.
C5_Witness ==
    \E f \in AllCalls :
        Completing(f) /\ \E h \in Observers : Count(f.invoked, h) = 2

\* C6: Unsubscribe of an observer that has no entry leaves the collection as
\* it is, returns normally (not by the early return and without an error),
\* and leaves the mutex free.
C6_AbsentUnsubscribe ==
    [][\A t \in Threads :
        BodyReturns(t, "Unsubscribe")
            /\ Count(mObservers, Top(t).observer) = 0 =>
                /\ mObservers' = mObservers
                /\ stack'[t][Depth(t)].pc = "returned"
                /\ ~stack'[t][Depth(t)].found
                /\ mObserversMutex' = 0]_vars

\* An Unsubscribe has returned without a match from a collection that is not
\* empty.
C6_Witness ==
    \E f \in AllCalls :
        /\ f.op = "Unsubscribe" /\ f.pc = "returned" /\ ~f.found
        /\ mObservers # <<>>

----------------------------------------------------------------------------
(* C7, under SpecTwoDispatch *)

\* The two simultaneous Dispatch calls of threads t and u, for different
\* event types, have both returned.
BothReturned(t, u) ==
    /\ t # u
    /\ Top(t).pc = "returned" /\ Top(u).pc = "returned"
    /\ Top(t).T # Top(u).T

\* A call that is not over is not stuck: the thread holding the lock can go
\* on, and a thread waiting in lock() waits for a thread that can.
NotStuck ==
    (\E t \in Threads : ~IsOver(Top(t))) => ENABLED NextTwoDispatch

\* How many of the two event types observer h declares.
CapabilityMatches(h, t, u) ==
    Cardinality(ObserverArgs(h) \cap {Top(t).T, Top(u).T})

\* The OnEvent calls observer h got from the two Dispatch calls together.
TotalInvocations(h, t, u) ==
    Count(Top(t).invoked, h) + Count(Top(u).invoked, h)

\* C7 as stated: both calls complete, the collection is as before, and each
\* subscribed observer was invoked, over both calls, as many times as it
\* declares of the two event types.
C7_OncePerCall ==
    /\ NotStuck
    /\ \A t, u \in Threads :
        BothReturned(t, u) =>
            /\ mObservers = Top(t).before /\ mObservers = Top(u).before
            /\ \A h \in Observers :
                Count(mObservers, h) > 0 =>
                    TotalInvocations(h, t, u) = CapabilityMatches(h, t, u)

\* C7, amended: neither call gets stuck; when both calls have returned the collection is the one each
\* of them locked, and each observer was invoked, over both calls, once per
\* entry it has in the collection for each of the two event types it
\* declares.
C7_OncePerEntryPerCall ==
    /\ NotStuck
    /\ \A t, u \in Threads :
        BothReturned(t, u) =>
            /\ mObservers = Top(t).before /\ mObservers = Top(u).before
            /\ \A h \in Observers :
                TotalInvocations(h, t, u) =
                    Count(mObservers, h) * CapabilityMatches(h, t, u)
            /\ TotalInvocations(NullPtr, t, u) = 0

\* Both calls have returned; one observer was invoked by both calls and
\* another by one of them only.
C7_Witness ==
    \E t, u \in Threads :
        /\ BothReturned(t, u)
        /\ \E h \in Observers :
            Count(Top(t).invoked, h) = 1 /\ Count(Top(u).invoked, h) = 1
        /\ \E h \in Observers :
            Count(Top(t).invoked, h) = 1 /\ Count(Top(u).invoked, h) = 0

----------------------------------------------------------------------------
(* C8 *)

\* A std::mutex is owned by a thread exactly while that thread is inside a
\* guarded scope: once a call is over, however it ended, its thread does not
\* own the mutex, and the mutex is free when no call is inside its scope.
LockedOnlyInGuard ==
    Mutex = "std::mutex" =>
        /\ mObserversMutex \in Threads \cup {0}
        /\ \A t \in Threads : mObserversMutex = t <=> InCriticalSection(t)

\* A Dispatch whose handler failed goes on with nothing but its end: the
\* failure reaches the caller, no further handler is invoked and the thread
\* does not own the mutex afterwards.
FailureLeavesDispatch ==
    \A t \in Threads :
        InCall(t) /\ Top(t).pc = "unwind" /\ stack'[t] # stack[t] =>
            /\ Len(stack'[t]) = Depth(t)
            /\ stack'[t][Depth(t)].pc = "thrown"
            /\ mObserversMutex' # t

\* C8: the lock is released on every exit path of Subscribe, Unsubscribe and
\* Dispatch, the failure of a handler included: that failure ends the
\* Dispatch, it reaches the caller, and the lock can be acquired again.
C8_LockReleased == []LockedOnlyInGuard /\ [][FailureLeavesDispatch]_vars

\* A Dispatch has ended with its handler's failure, and another thread has
\* acquired the lock since.
C8_Witness ==
    /\ Mutex = "std::mutex"
    /\ \E t, u \in Threads :
        /\ t # u
        /\ Depth(t) = 1 /\ Top(t).op = "Dispatch" /\ Top(t).pc = "thrown"
        /\ InCall(u) /\ InGuard(Top(u)) /\ mObserversMutex = u

----------------------------------------------------------------------------
(* C9 *)

\* Thread t's Unsubscribe finds an entry, erases it and returns in this step.
Unsubscribes(t) ==
    BodyReturns(t, "Unsubscribe") /\ stack'[t][Depth(t)].found

\* C9 as stated: after an Unsubscribe(h) that found and removed an entry,
\* the collection does not contain two entries of h.
C9_NoDuplicatesLeft ==
    [][\A t \in Threads :
        Unsubscribes(t) => Count(mObservers', Top(t).observer) <= 1]_vars

\* C9, amended: an Unsubscribe(h) that finds an entry removes exactly one
\* entry of h and no entry of any other observer; two or more entries of h
\* are left exactly when there were three or more.
C9_OneEntryRemoved ==
    [][\A t \in Threads :
        Unsubscribes(t) =>
            LET h == Top(t).observer
            IN  /\ OneRemoved(mObservers, mObservers')
                /\ Count(mObservers', h) = Count(mObservers, h) - 1
                /\ \A g \in Handles \ {h} :
                    Count(mObservers', g) = Count(mObservers, g)
                /\ Count(mObservers', h) >= 2 <=> Count(mObservers, h) >= 3
      ]_vars

\* The only thread of a single-threaded manager has just returned from an
\* Unsubscribe that found an entry, and two entries of that observer are
\* left.
C9_Witness ==
    /\ Mutex = "NullMutex"
    /\ Depth(1) = 1
    /\ Top(1).op = "Unsubscribe" /\ Top(1).pc = "returned" /\ Top(1).found
    /\ Count(mObservers, Top(1).observer) = 2

----------------------------------------------------------------------------
(* C10 *)

\* No step of a Dispatch changes the collection: not the lock, not the loop,
\* not its exits.
DispatchKeepsCollection ==
    \A t \in Threads :
        InCall(t) /\ Top(t).op = "Dispatch" /\ stack'[t] # stack[t] =>
            mObservers' = mObservers

\* Unless a Subscribe or Unsubscribe has changed the collection while the
\* Dispatch was in its loop, the collection is the one the Dispatch locked.
CollectionAsLocked ==
    \A f \in AllCalls :
        Looping(f) /\ ~f.modified => mObservers = f.before

\* C10: Dispatch does not change the collection, whatever the event type and
\* however many entries are capable of it: when Dispatch returns, contents
\* and order are as they were when it acquired the lock, any change in
\* between being that of a Subscribe or Unsubscribe called meanwhile.
C10_DispatchFrame == [][DispatchKeepsCollection]_vars /\ []CollectionAsLocked

\* A Dispatch about to return from a collection of three entries none of
\* which was capable of its event type.
C10_Witness ==
    \E f \in AllCalls :
        /\ Completing(f)
        /\ Len(f.before) = MaxObservers
        /\ f.invoked = <<>>
        /\ \E i \in 1..Len(f.before) : f.before[i] # NullPtr

----------------------------------------------------------------------------
(* C11 *)

\* Dispatch f is about to read *it for the next entry of its loop.
AboutToRead(f) == f.op = "Dispatch" /\ f.pc = "scan" /\ ~AtEnd(f)

\* C11 as stated: with NullMutex, whatever Unsubscribe calls the handlers
\* have made during the loop, a Dispatch reads only positions inside the
\* current bounds of the collection, so that every handle it invokes is an
\* entry of the collection.  (The loop ends at the end() taken when it
\* started, so a position past the current end can only be reached after an
\* Unsubscribe has erased an entry during the loop.)
C11_ScanInBounds ==
    Mutex = "NullMutex" =>
        \A f \in AllCalls : AboutToRead(f) => f.it <= Len(mObservers)

----------------------------------------------------------------------------
(* C12, under SpecConstructed *)

\* No call has been made on the manager since its construction.
JustConstructed == \A t \in Threads : Depth(t) = 0

\* C12 as stated: whichever constructor made the manager, its collection has
\* no entries right after construction, and a Dispatch before the first
\* Subscribe invokes no handler.
C12_CreatedEmpty ==
    /\ JustConstructed => mObservers = <<>>
    /\ \A f \in AllCalls : Looping(f) => f.invoked = <<>>

\* C12, amended: right after construction the collection is the container
\* the constructor put there: empty after BaseEventManager(), the argument
\* after BaseEventManager(Container).  Before the first Subscribe a Dispatch
\* invokes only capable entries of that container, hence no handler after
\* BaseEventManager().
C12_CreatedAsConstructed ==
    LET made == history[1]
    IN  /\ made.op = "BaseEventManager()" => made.container = <<>>
        /\ JustConstructed => mObservers = made.container
        /\ \A f \in AllCalls :
            Looping(f) =>
                \A i \in 1..Len(f.invoked) :
                    /\ Count(made.container, f.invoked[i]) > 0
                    /\ Capable(f.invoked[i], f.T)

\* A Dispatch on a manager made by BaseEventManager(Container) with two
\* entries has invoked one of them before any Subscribe.
C12_Witness ==
    /\ history[1].op = "BaseEventManager(Container)"
    /\ Len(history[1].container) = 2
    /\ \E f \in AllCalls : Looping(f) /\ Len(f.invoked) = 1

----------------------------------------------------------------------------
(* C13, under SpecSingleThread *)

RECURSIVE RemoveFirst(_, _)
\* s without its first entry equal to h.
RemoveFirst(s, h) ==
    IF s = <<>> THEN s
    ELSE IF Head(s) = h THEN Tail(s)
    ELSE <<Head(s)>> \o RemoveFirst(Tail(s), h)

\* What a call does to a collection s when nothing but the call acts on it.
Effect(c, s) ==
    IF c.op = "Subscribe" THEN Append(s, c.observer)
    ELSE IF c.op = "Unsubscribe" THEN RemoveFirst(s, c.observer)
    ELSE s

\* lock() returns at once, and the mutex plays no other part: a std::mutex
\* is owned exactly inside the guarded scopes, a NullMutex never.
LockNeverWaits ==
    /\ InCall(1) /\ Top(1).pc = "lock" => CanLock(1)
    /\ mObserversMutex =
           IF Mutex = "std::mutex" /\ InCriticalSection(1) THEN 1 ELSE 0

\* Every step leaves the collection as it is, except the step in which a
\* Subscribe or Unsubscribe returns, which has the call's effect.
StepIsSequential ==
    IF BodyReturns(1, "Subscribe") \/ BodyReturns(1, "Unsubscribe")
    THEN mObservers' = Effect(Top(1), mObservers)
    ELSE mObservers' = mObservers

\* C13: used by one thread without reentrant calls, a manager with
\* NullMutex and a manager with std::mutex go through the same collection
\* states and invoke the same handlers in the same order: with either, no
\* call waits for the lock, each call changes the collection as the call
\* alone determines, and each Dispatch invokes the capable entries of the
\* collection in order.
C13_NullMutexEquivalent ==
    /\ []LockNeverWaits
    /\ [][StepIsSequential]_vars
    /\ []InvokedInOrder

\* A manager with NullMutex has run a Dispatch over three entries to the
\* end, invoking two handlers.
C13_Witness ==
    /\ Mutex = "NullMutex"
    /\ \E f \in AllCalls :
        Completing(f) /\ Len(f.before) = 3 /\ Len(f.invoked) = 2

----------------------------------------------------------------------------
(* C14 *)

\* s2 is s without its entry at position i, the others in their order.
WithoutEntry(s, i, s2) ==
    /\ Len(s2) = Len(s) - 1
    /\ \A j \in 1..Len(s2) : s2[j] = IF j < i THEN s[j] ELSE s[j + 1]

\* C14: Unsubscribe(h) on a collection with one or more entries equal to h
\* removes the first of them and nothing else: the collection is one entry
\* shorter, and all other entries, later entries equal to h included, stay
\* in their order.
C14_RemovesFirst ==
    [][\A t \in Threads :
        BodyReturns(t, "Unsubscribe")
            /\ Count(mObservers, Top(t).observer) >= 1 =>
                \E i \in 1..Len(mObservers) :
                    /\ mObservers[i] = Top(t).observer
                    /\ \A j \in 1..i - 1 : mObservers[j] # Top(t).observer
                    /\ WithoutEntry(mObservers, i, mObservers')
                    /\ stack'[t][Depth(t)].found]_vars

\* The only thread of a single-threaded manager has just returned from an
\* Unsubscribe(h) that found an entry; another observer's entry and a later
\* entry of h are left, in this order.
C14_Witness ==
    /\ Mutex = "NullMutex"
    /\ Depth(1) = 1
    /\ Top(1).op = "Unsubscribe" /\ Top(1).pc = "returned" /\ Top(1).found
    /\ Len(mObservers) = 2
    /\ mObservers[1] # Top(1).observer
    /\ mObservers[2] = Top(1).observer

----------------------------------------------------------------------------
(* C15 *)

\* C15: Subscribe(h) accepts every handle, the null pointer and a handle
\* already subscribed included: when it returns, the collection is the
\* previous one with h appended as its last entry.
C15_Appends ==
    [][\A t \in Threads :
        BodyReturns(t, "Subscribe") =>
            /\ Len(mObservers') = Len(mObservers) + 1
            /\ mObservers'[Len(mObservers')] = Top(t).observer
            /\ \A i \in 1..Len(mObservers) : mObservers'[i] = mObservers[i]
            /\ stack'[t][Depth(t)].pc = "returned"]_vars

\* The only thread of a single-threaded manager has just returned from a
\* Subscribe of the observer that is the first entry already; the entry
\* between the two is the null pointer.
C15_Witness ==
    /\ Mutex = "NullMutex"
    /\ Depth(1) = 1
    /\ Top(1).op = "Subscribe" /\ Top(1).pc = "returned"
    /\ Len(mObservers) = 3
    /\ mObservers[3] = mObservers[1]
    /\ mObservers[2] = NullPtr

----------------------------------------------------------------------------
(* C16 *)

\* A handler invoked by Dispatch f is running.
InHandler(f) == f.op = "Dispatch" /\ f.pc = "handler"

\* C16: with std::mutex, while a Dispatch of one thread is in its loop, from
\* before its first invocation until after its last, no handler invoked by a
\* Dispatch of another thread runs: the invocations of two Dispatch calls
\* of different threads never interleave.
C16_DispatchesSerialized ==
    Mutex = "std::mutex" =>
        \A t, u \in Threads :
            t # u =>
                \A i \in 1..Depth(t), j \in 1..Depth(u) :
                    ~(Looping(stack[t][i]) /\ InHandler(stack[u][j]))

\* A Dispatch is in the handler of its second entry while a Dispatch of the
\* other thread waits for the lock.
C16_Witness ==
    /\ Mutex = "std::mutex"
    /\ \E t, u \in Threads :
        /\ t # u
        /\ Depth(t) = 1 /\ InHandler(Top(t)) /\ Top(t).it = 2
        /\ Depth(u) = 1 /\ Top(u).op = "Dispatch" /\ Top(u).pc = "lock"

----------------------------------------------------------------------------
(* C17, under SpecFair *)

\* Thread t has started a call that is not over.
Started(t) == InCall(t) /\ ~IsOver(Top(t))

\* Thread t is in lock().
Waiting(t) == InCall(t) /\ Top(t).pc = "lock"

\* C17 as stated: every started Subscribe, Unsubscribe and Dispatch call
\* eventually returns.
C17_EveryCallReturns ==
    \A t \in Threads : Started(t) ~> ~Started(t)

\* C17, amended: there is no deadlock and no call keeps the lock: a call
\* that has the lock eventually returns.  A call can still wait in lock()
\* for ever, but only while calls of other threads take the mutex again and
\* again.
C17_NoCallKeepsTheLock ==
    \A t \in Threads :
        /\ (InCall(t) /\ InGuard(Top(t))) ~> ~Started(t)
        /\ Waiting(t) ~> (~Waiting(t) \/ mObserversMutex \in Threads \ {t})

\* A Subscribe waits in lock() while the other thread's Dispatch is in a
\* handler.
C17_Witness ==
    \E t, u \in Threads :
        /\ t # u
        /\ Waiting(t) /\ Top(t).op = "Subscribe"
        /\ InCall(u) /\ InHandler(Top(u))

----------------------------------------------------------------------------
(* C18, under SpecForward *)

\* The Dispatch(T&&) that is the i-th call on thread t's stack has called the
\* locking Dispatch(const T&) for its event's type.
Delegated(t, i) ==
    /\ i < Depth(t)
    /\ stack[t][i + 1].op = "Dispatch"
    /\ stack[t][i + 1].T = EventType(stack[t][i].T)

\* C18 as stated: whatever the value category of the argument, a call of
\* Dispatch(T&&) is made by the application only, calls the locking
\* Dispatch(const T&) for the event's type once, which invokes the capable
\* entries of the collection, and returns.
C18_ForwardsOnce ==
    \A t \in Threads :
        \A i \in 1..Depth(t) :
            stack[t][i].op = "Dispatch(T&&)" =>
                /\ i = 1
                /\ stack[t][i].pc # "overflow"
                /\ stack[t][i].pc = "forwarded" => Delegated(t, i)
                /\ stack[t][i].pc = "forwarded" /\ Completing(Top(t)) =>
                       Top(t).invoked =
                           Matching(mObservers, EventType(stack[t][i].T))

----------------------------------------------------------------------------
(* C19 *)

\* In a Dispatch(T) that has run to the end of a collection nobody changed
\* meanwhile, every handle got as many OnEvent calls as it has entries if it
\* is capable of T, and none otherwise.
CountsPerEntry ==
    \A f \in AllCalls :
        Completing(f) =>
            \A h \in Handles :
                Count(f.invoked, h) =
                    IF Capable(h, f.T) THEN Count(f.before, h) ELSE 0

\* The step of a Dispatch that reads a null entry goes to the next entry:
\* no handler is invoked and no error is raised.
NullSkipped ==
    \A t \in Threads :
        (/\ InCall(t)
         /\ AboutToRead(Top(t))
         /\ ~OutOfRange(Top(t))
         /\ mObservers[Top(t).it] = NullPtr
         /\ stack'[t] # stack[t]) =>
            stack'[t] = [stack[t] EXCEPT ![Depth(t)].it = @ + 1]

\* C19: within one Dispatch(T) on a collection not modified during the
\* call, each handle is invoked once per entry equal to it if it is capable
\* of T and never otherwise; a null entry counts as not capable and is
\* skipped without error.
C19_CountsPerEntry == []CountsPerEntry /\ [][NullSkipped]_vars

\* A Dispatch has run to the end of a collection with a null entry and has
\* invoked one handler twice.
C19_Witness ==
    \E f \in AllCalls :
        /\ Completing(f)
        /\ Count(f.before, NullPtr) = 1
        /\ \E h \in Observers : Count(f.invoked, h) = 2

----------------------------------------------------------------------------
(* C20, under SpecRecorded *)

\* The calls recorded since the constructor.
Recorded == Tail(history)

\* How many recorded calls are op(h).
Completed(op, h) ==
    Cardinality({i \in 1..Len(Recorded) :
        Recorded[i].op = op /\ Recorded[i].observer = h})

RECURSIVE Replay(_)
\* The subscriptions left by calls cs made one after the other on an empty
\* collection, each Unsubscribe(h) cancelling the oldest subscription of h
\* that is left.
Replay(cs) ==
    IF cs = <<>> THEN <<>>
    ELSE Effect(cs[Len(cs)], Replay(SubSeq(cs, 1, Len(cs) - 1)))

\* C20: in every state of a manager constructed empty, each handle has as
\* many entries as Subscribe calls for it have completed, less the completed
\* Unsubscribe calls that found it, and the collection is the sequence of the
\* subscriptions not yet removed, in subscription order, where each
\* Unsubscribe(h) has cancelled the oldest surviving subscription of h.
C20_SurvivingSubscriptions ==
    /\ \A h \in Handles :
        Count(mObservers, h) =
            Completed("Subscribe", h) - Completed("Unsubscribe", h)
    /\ mObservers = Replay(Recorded)

\* Observer 1, observer 2 and observer 1 again were subscribed, then
\* Unsubscribe(1) has cancelled the older subscription of observer 1.
C20_Witness ==
    /\ Len(Recorded) = 4
    /\ \A i \in 1..3 : Recorded[i].op = "Subscribe"
    /\ Recorded[1].observer = 1 /\ Recorded[2].observer = 2
    /\ Recorded[3].observer = 1
    /\ Recorded[4] = [op |-> "Unsubscribe", observer |-> 1]
    /\ mObservers = <<2, 1>>

====
